---- MODULE Spec2Model ----
(***************************************************************************)
(* Model of the qdrant/mcp-for-docs ingestion pipeline                     *)
(* (src/qdrant_docs_mcp/tools/importer.py, extractor.py, models.py).       *)
(*                                                                         *)
(* The specifications share one set of variables; each moves only the     *)
(* variables of its component:                                             *)
(*   SpecVersion  get_version and the three lookups it calls               *)
(*   SpecCrawl    extract_from_website, one loop iteration per step        *)
(*   SpecDrivers  extract_from_repo and extract_from_snipdir               *)
(*   SpecImport   import_library: clone_repo, extract_all, upsert_snippets *)
(*   SpecClone    clone_repo, statement by statement, on two threads       *)
(*   SpecSchema   ensure_collection and the schema step of encode_snippets *)
(*   SpecPoints   the point identifiers of the two uploads                 *)
(*   SpecTree     _extract_from_markdown_tree on its own                   *)
(*                                                                         *)
(* Strings the code only compares are TLA+ strings.  Strings the code      *)
(* takes apart (tag names, URLs) are tuples of one-character strings, so   *)
(* that strip, split and startswith are computed, not assumed.             *)
(***************************************************************************)
EXTENDS Integers, Sequences, FiniteSets, TLC

VARIABLES
    \* ---- get_version ----
    vCfg,        \* config.version_by of the last call: [version_type, value]
    vNet,        \* what the three endpoints answered during the last call
    vResult,     \* outcome of the last call: [kind, val, calls]
    \* ---- extract_from_website ----
    cache,       \* set[str] of URLs already taken from the queue
    queue,       \* deque[str], right end = end of the sequence
    wsnippets,   \* snippets appended so far: sequence of [source, code]
    site,        \* pages served so far: normalized URL -> [links, blocks]
    fetchLog,    \* URLs handed to html_to_md_tree, in order
    crawlStatus, \* "running" | "done" (returned) | "failed" (exception left the function)
    \* ---- extract_from_repo / extract_from_snipdir ----
    dIn,         \* input of the last driver call
    dOut,        \* its outcome: [kind, snips]
    \* ---- import_library ----
    world,       \* what both runs read: the configuration found in the clone
    pc,          \* position of the run
    run,         \* number of import_library calls started
    srcIdx,      \* index of the source extract_all is at
    repoCache,   \* _repo_cache: URL -> clone path
    liveDirs,    \* temporary directories that exist
    nextDir,     \* number of temporary directories created so far
    cloneCount,  \* URL -> executions of git clone in this run
    libScope,    \* the clone_repo scope of import_library
    srcScope,    \* the clone_repo scope of the source at srcIdx
    acc,         \* snippets collected by extract_all
    versions,    \* what get_version returned in this run, per source
    store,       \* destination collection: the points, one per id
    hist,        \* one entry per finished run
    \* ---- clone_repo scopes on concurrent threads ----
    thr,         \* per thread: position in clone_repo and its locals
    callsLeft,   \* per thread: clone_repo calls it will still make
    sharedCache, \* _repo_cache as the threads see it: URL -> clone path
    tmpDirs,     \* temporary directories that exist
    dirCount,    \* number of temporary directories created so far
    \* ---- ensure_collection ----
    dest,        \* the destination: collection name -> [vectors, indexes]
    schemaLast,  \* the last schema call: its arguments, the client calls it
                 \* made, the destination before it, whether it raised
    \* ---- point identifiers ----
    pTool,       \* which upload ran: "none" | "importer" | "encoder"
    pPair,       \* the two snippets it was given
    pStore,      \* the points of the collection after the upload
    \* ---- _extract_from_markdown_tree ----
    tRoot,       \* root.children of the last call
    tOut,        \* the PartialSnippets it returned
    tDone        \* whether a call was made

versionVars == <<vCfg, vNet, vResult>>
crawlVars   == <<cache, queue, wsnippets, site, fetchLog, crawlStatus>>
driverVars  == <<dIn, dOut>>
importVars  == <<world, pc, run, srcIdx, repoCache, liveDirs, nextDir,
                 cloneCount, libScope, srcScope, acc, versions, store, hist>>
cloneVars   == <<thr, callsLeft, sharedCache, tmpDirs, dirCount>>
pipelineVars == <<versionVars, crawlVars, driverVars, importVars>>
schemaVars  == <<dest, schemaLast>>
pointVars   == <<pTool, pPair, pStore>>
treeVars    == <<tRoot, tOut, tDone>>
unitVars    == <<cloneVars, schemaVars, pointVars, treeVars>>
vars == <<pipelineVars, unitVars>>

----------------------------------------------------------------------------
(* Generic helpers                                                         *)

Range(s) == {s[i] : i \in 1..Len(s)}

SeqsUpTo(S, n) == UNION {[1..k -> S] : k \in 0..n}

\* Sequences of at most n pairwise different elements of S
DistinctSeqsUpTo(S, n) ==
    {s \in SeqsUpTo(S, n) : \A i, j \in 1..Len(s) : i # j => s[i] # s[j]}

IsPrefix(p, s) == Len(p) <= Len(s) /\ SubSeq(s, 1, Len(p)) = p

----------------------------------------------------------------------------
(* Version resolver: importer.py 46-112                                    *)

MaxTags == 3

\* Tag names a repository may carry, with their characters.
\* None has a prerelease or build part, so semver validity is the validity
\* of MAJOR.MINOR.PATCH.
Chars(t) ==
    CASE t = "v1.2.0"        -> <<"v","1",".","2",".","0">>
      [] t = "v1.10.0"       -> <<"v","1",".","1","0",".","0">>
      [] t = "1.10.0"        -> <<"1",".","1","0",".","0">>
      [] t = "vv2.0.0"       -> <<"v","v","2",".","0",".","0">>
      [] t = "v2.0"          -> <<"v","2",".","0">>
      [] t = "v01.0.0"       -> <<"v","0","1",".","0",".","0">>
      [] t = "not-a-version" -> <<"n","o","t","-","a","-","v","e","r","s","i","o","n">>

TagNames == {"v1.2.0", "v1.10.0", "1.10.0", "vv2.0.0", "v2.0", "v01.0.0",
             "not-a-version"}

Digits == {"0","1","2","3","4","5","6","7","8","9"}

DigitVal(c) ==
    CASE c = "0" -> 0 [] c = "1" -> 1 [] c = "2" -> 2 [] c = "3" -> 3
      [] c = "4" -> 4 [] c = "5" -> 5 [] c = "6" -> 6 [] c = "7" -> 7
      [] c = "8" -> 8 [] c = "9" -> 9

\* str.strip("v"): every leading and every trailing "v" is removed
RECURSIVE LStripV(_)
LStripV(s) == IF s # <<>> /\ Head(s) = "v" THEN LStripV(Tail(s)) ELSE s

RECURSIVE RStripV(_)
RStripV(s) ==
    IF s # <<>> /\ s[Len(s)] = "v" THEN RStripV(SubSeq(s, 1, Len(s) - 1)) ELSE s

StripV(s) == RStripV(LStripV(s))

\* str.split("."): the parts between the dots
RECURSIVE SplitDot(_)
SplitDot(s) ==
    IF \E i \in 1..Len(s) : s[i] = "."
    THEN LET i == CHOOSE k \in 1..Len(s) :
                      s[k] = "." /\ \A j \in 1..(k - 1) : s[j] # "."
         IN  <<SubSeq(s, 1, i - 1)>> \o SplitDot(SubSeq(s, i + 1, Len(s)))
    ELSE <<s>>

\* 0|[1-9]\d*
IsNumeric(p) ==
    /\ p # <<>>
    /\ \A i \in 1..Len(p) : p[i] \in Digits
    /\ (Len(p) > 1 => p[1] # "0")

RECURSIVE ParseNat(_)
ParseNat(p) ==
    IF p = <<>> THEN 0
    ELSE 10 * ParseNat(SubSeq(p, 1, Len(p) - 1)) + DigitVal(p[Len(p)])

\* semver.Version.is_valid on a string without prerelease or build part
SemverIsValid(s) ==
    LET parts == SplitDot(s)
    IN  Len(parts) = 3 /\ \A i \in 1..3 : IsNumeric(parts[i])

\* semver.Version.parse: (major, minor, patch)
SemverParse(s) ==
    LET parts == SplitDot(s)
    IN  <<ParseNat(parts[1]), ParseNat(parts[2]), ParseNat(parts[3])>>

\* Version.__lt__: comparison of the tuples
SemverLess(a, b) ==
    \/ a[1] < b[1]
    \/ a[1] = b[1] /\ a[2] < b[2]
    \/ a[1] = b[1] /\ a[2] = b[2] /\ a[3] < b[3]

TagKey(t) == SemverParse(StripV(Chars(t)))

\* sorted(..., key=...): stable, ascending
RECURSIVE InsertByKey(_, _)
InsertByKey(sorted, t) ==
    IF sorted = <<>> THEN <<t>>
    ELSE IF SemverLess(TagKey(t), TagKey(sorted[Len(sorted)]))
         THEN InsertByKey(SubSeq(sorted, 1, Len(sorted) - 1), t)
                  \o <<sorted[Len(sorted)]>>
         ELSE Append(sorted, t)

RECURSIVE SortedByKey(_)
SortedByKey(ts) ==
    IF ts = <<>> THEN <<>>
    ELSE InsertByKey(SortedByKey(SubSeq(ts, 1, Len(ts) - 1)), ts[Len(ts)])

\* the filter of importer.py line 55
TagIsAccepted(t) == SemverIsValid(StripV(Chars(t)))

\* An endpoint's answer: requests.get raised, r.ok is false, or r.ok with a body.
\* Outcome of a lookup: [kind |-> "raise" | "none" | "value", val].
Raised(e)  == [kind |-> "raise", val |-> e]
NoneVal    == [kind |-> "none",  val |-> ""]
Value(v)   == [kind |-> "value", val |-> v]

get_latest_github_tag(resp) ==
    IF resp.kind = "raise" THEN Raised("ConnectionError")
    ELSE IF resp.kind = "notok" THEN NoneVal
    ELSE LET valid_tag_names == SortedByKey(SelectSeq(resp.tags, TagIsAccepted))
         IN  IF Len(valid_tag_names) = 0 THEN NoneVal
             ELSE Value(valid_tag_names[Len(valid_tag_names)])

get_latest_pypi_version(resp) ==
    IF resp.kind = "raise" THEN Raised("ConnectionError")
    ELSE IF resp.kind = "notok" THEN NoneVal
    ELSE IF ~resp.hasField THEN Raised("KeyError")
    ELSE Value(resp.field)

get_github_release_tag(resp) ==
    IF resp.kind = "raise" THEN Raised("ConnectionError")
    ELSE IF resp.kind = "notok" THEN NoneVal
    ELSE IF ~resp.hasField THEN Raised("KeyError")
    ELSE Value(resp.field)

\* `version or "unknown"`
OrUnknown(r) == IF r.kind = "none" \/ r.val = "" THEN "unknown" ELSE r.val

Returned(v, calls) == [kind |-> "ret",   val |-> v, calls |-> calls]
Threw(e, calls)    == [kind |-> "raise", val |-> e, calls |-> calls]

Finish(r, calls) ==
    IF r.kind = "raise" THEN Threw(r.val, calls) ELSE Returned(OrUnknown(r), calls)

\* get_version that asks the tag listing at once for the policy github_release
get_version_TagsOnly(version_by, net) ==
    IF version_by.version_type = "version" THEN Returned(version_by.value, <<>>)
    ELSE IF version_by.version_type = "pypi"
    THEN Finish(get_latest_pypi_version(net.pypi), <<"pypi">>)
    ELSE Finish(get_latest_github_tag(net.tags), <<"tags">>)

\* get_version that applies `or "unknown"` to a fixed version as well
get_version_FixedOrUnknown(version_by, net) ==
    IF version_by.version_type = "version"
    THEN Returned(OrUnknown(Value(version_by.value)), <<>>)
    ELSE get_version_TagsOnly(version_by, net)

get_version(version_by, net) ==
    IF version_by.version_type = "version" THEN Returned(version_by.value, <<>>)
    ELSE IF version_by.version_type = "pypi"
    THEN Finish(get_latest_pypi_version(net.pypi), <<"pypi">>)
    ELSE IF version_by.version_type = "github_release"
    THEN LET rel == get_github_release_tag(net.release)
         IN  IF rel.kind = "raise" THEN Threw(rel.val, <<"release">>)
             ELSE IF rel.kind = "none"
             THEN Finish(get_latest_github_tag(net.tags), <<"release", "tags">>)
             ELSE Returned(OrUnknown(rel), <<"release">>)
    ELSE Finish(get_latest_github_tag(net.tags), <<"tags">>)

VersionTypes == {"github_tags", "github_release", "pypi", "version"}

VersionBys ==
    [version_type : {"github_tags", "github_release", "pypi"}, value : {"pkg"}]
    \cup [version_type : {"version"}, value : {"latest", "1.2.0", ""}]

NotAsked == [kind |-> "notasked"]

FieldResponses ==
    {[kind |-> "raise"], [kind |-> "notok"]}
    \cup [kind : {"ok"}, hasField : {TRUE}, field : {"v1.2.0", "2.0.0"}]
    \cup [kind : {"ok"}, hasField : {FALSE}, field : {""}]

TagsResponses ==
    {[kind |-> "raise"], [kind |-> "notok"]}
    \cup [kind : {"ok"}, tags : DistinctSeqsUpTo(TagNames, MaxTags)]

\* The answers a call can meet: only the endpoints its policy may query vary
NetFor(version_by) ==
    CASE version_by.version_type = "version" ->
            {[pypi |-> NotAsked, release |-> NotAsked, tags |-> NotAsked]}
      [] version_by.version_type = "pypi" ->
            [pypi : FieldResponses, release : {NotAsked}, tags : {NotAsked}]
      [] version_by.version_type = "github_release" ->
            [pypi : {NotAsked}, release : FieldResponses, tags : TagsResponses]
      [] version_by.version_type = "github_tags" ->
            [pypi : {NotAsked}, release : {NotAsked}, tags : TagsResponses]

NoResult == [kind |-> "idle", val |-> "", calls |-> <<>>]

\* One call of get_version (extract_all, importer.py line 368)
ResolveVersion ==
    /\ vResult.kind = "idle"
    /\ \E vb \in VersionBys : \E net \in NetFor(vb) :
          /\ vCfg' = vb
          /\ vNet' = net
          /\ vResult' = get_version(vb, net)
    /\ UNCHANGED <<crawlVars, driverVars, importVars>>
    /\ UNCHANGED unitVars

----------------------------------------------------------------------------
(* Snippet extractor: extractor.py 26-69                                   *)

None == "<None>"

MaxNodes == 2

\* markdown-it nodes as SyntaxTreeNode shows them: a heading or paragraph holds
\* one inline child, whose content is the raw text and whose children are the
\* text tokens; "# " alone gives an inline child without children.
TextTok(t) == [type |-> "text", content |-> t]
Inline(t)  == [type |-> "inline", content |-> t,
               children |-> IF t = "" THEN <<>> ELSE <<TextTok(t)>>]
Heading(t)   == [type |-> "heading", info |-> "", content |-> "",
                 children |-> <<Inline(t)>>]
Paragraph(t) == [type |-> "paragraph", info |-> "", content |-> "",
                 children |-> <<Inline(t)>>]
\* a fence without a language tag has info ""
Fence(info, code) == [type |-> "fence", info |-> info, content |-> code,
                      children |-> <<>>]
CodeBlock(code)   == [type |-> "code_block", info |-> "", content |-> code,
                      children |-> <<>>]
\* a block quote whose only child is a fence: the fence is not a child of the root
Quote(code) == [type |-> "blockquote", info |-> "", content |-> "",
                children |-> <<[type |-> "fence", content |-> code,
                                children |-> <<>>]>>]

PartialSnippet(description, snippet, language, source) ==
    [category |-> "", description |-> description, snippet |-> snippet,
     language |-> language, source |-> source]

\* `x or ""`
OrEmpty(x) == IF x = None THEN "" ELSE x

\* a loop body that also emits the fence inside a block quote
VisitNode_Nested(st, node, source) ==
    IF node.type \in {"fence", "code_block", "blockquote"}
    THEN [st EXCEPT !.snippets = Append(@, PartialSnippet(
              OrEmpty(st.heading) \o OrEmpty(st.paragraph),
              IF node.type = "blockquote" THEN node.children[1].content
              ELSE node.content,
              IF node.type = "code_block" THEN None ELSE node.info, source))]
    ELSE IF node.type = "heading" /\ Len(node.children[1].children) > 0
    THEN [st EXCEPT !.heading = node.children[1].children[1].content,
                    !.paragraph = None]
    ELSE IF node.type = "paragraph"
    THEN [st EXCEPT !.paragraph = node.children[1].content]
    ELSE st

\* the loop body of lines 34-67: (snippets, current_heading, current_paragraph)
VisitNode(st, node, source) ==
    IF node.type = "fence"
    THEN [st EXCEPT !.snippets = Append(@, PartialSnippet(
              OrEmpty(st.heading) \o OrEmpty(st.paragraph),
              node.content, node.info, source))]
    ELSE IF node.type = "code_block"
    THEN [st EXCEPT !.snippets = Append(@, PartialSnippet(
              OrEmpty(st.heading) \o OrEmpty(st.paragraph),
              node.content, None, source))]
    ELSE IF /\ node.type = "heading"
            /\ Len(node.children) > 0
            /\ Len(node.children[1].children) > 0
    THEN [st EXCEPT !.heading = node.children[1].children[1].content,
                    !.paragraph = None]
    ELSE IF node.type = "paragraph" /\ Len(node.children) > 0
    THEN [st EXCEPT !.paragraph = node.children[1].content]
    ELSE st

RECURSIVE VisitAll(_, _, _)
VisitAll(st, nodes, source) ==
    IF nodes = <<>> THEN st
    ELSE VisitAll(VisitNode(st, Head(nodes), source), Tail(nodes), source)

extract_from_markdown_tree(root, source) ==
    VisitAll([snippets |-> <<>>, heading |-> None, paragraph |-> None],
             root, source).snippets

----------------------------------------------------------------------------
(* Website driver: importer.py 305-349                                     *)

MaxLinks   == 3
MaxFetches == 6

\* URLs, one character per element; "d" stands for the configured source URL
\* (scheme, host and path prefix), "o" for another host.
SourceUrl == <<"d">>

Hrefs == { <<"d">>,
           <<"d","#","x">>,
           <<"d","/","a">>,
           <<"d","/","a","#","x">>,
           <<"d","/","b">>,
           <<"d","/","c">>,
           <<"o","/","a">> }

RECURSIVE Join(_)
Join(cs) == IF cs = <<>> THEN "" ELSE Head(cs) \o Join(Tail(cs))

\* link.split("#")[0]
SplitHash0(link) ==
    IF \E i \in 1..Len(link) : link[i] = "#"
    THEN LET i == CHOOSE k \in 1..Len(link) :
                      link[k] = "#" /\ \A j \in 1..(k - 1) : link[j] # "#"
         IN  SubSeq(link, 1, i - 1)
    ELSE link

\* link.startswith(prefix)
StartsWith(link, prefix) == IsPrefix(prefix, link)

\* LinksToQueue without the startswith test of line 334
LinksToQueue_AnySite(links, seen, prefix) ==
    LET Keep(link) == link \notin seen
        kept == SelectSeq(links, Keep)
    IN  [i \in 1..Len(kept) |-> SplitHash0(kept[i])]

\* LinksToQueue without the split("#")[0] of line 334
LinksToQueue_NoSplit(links, seen, prefix) ==
    LET Keep(link) == link \notin seen /\ StartsWith(link, prefix)
    IN  SelectSeq(links, Keep)

\* line 334: the links of a page that go onto the queue, in document order
LinksToQueue(links, seen, prefix) ==
    LET Keep(link) == link \notin seen /\ StartsWith(link, prefix)
        kept == SelectSeq(links, Keep)
    IN  [i \in 1..Len(kept) |-> SplitHash0(kept[i])]

\* lines 336-347: the Snippets of one page
PageSnippets(doc, url, language, package_name, version) ==
    LET ps == extract_from_markdown_tree(doc, Join(url))
    IN  [i \in 1..Len(ps) |->
            [description |-> ps[i].description, code |-> ps[i].snippet,
             language |-> language, source |-> Join(url),
             package_name |-> package_name, version |-> version]]

\* What a page can hold: its links in document order (_get_links) and its
\* top-level nodes.
PageDocs == { <<>>, <<Heading("H"), Fence("python", "c")>> }

TotalLinks(s) ==
    LET RECURSIVE Sum(_)
        Sum(D) == IF D = {} THEN 0
                  ELSE LET u == CHOOSE x \in D : TRUE
                       IN  Len(s[u].links) + Sum(D \ {u})
    IN  Sum(DOMAIN s)

\* The page behind a URL: the fragment is not part of the request
PageOf(url) == SplitHash0(url)

\* extract_from_website, lines 322-325
CrawlEntry ==
    /\ cache = {}
    /\ queue = <<SourceUrl>>
    /\ wsnippets = <<>>
    /\ site = <<>>
    /\ fetchLog = <<>>
    /\ crawlStatus = "running"

AfterIteration(q) == IF Len(q) > 0 THEN "running" ELSE "done"

\* lines 328-330: the URL taken from the queue was seen before
CrawlSkip ==
    /\ crawlStatus = "running"
    /\ Len(queue) > 0
    /\ LET url == queue[Len(queue)]
           rest == SubSeq(queue, 1, Len(queue) - 1)
       IN  /\ url \in cache
           /\ queue' = rest
           /\ crawlStatus' = AfterIteration(rest)
    /\ UNCHANGED <<cache, wsnippets, site, fetchLog>>
    /\ UNCHANGED <<versionVars, driverVars, importVars>>
    /\ UNCHANGED unitVars

\* lines 328-347: the page is fetched and parsed
CrawlFetch ==
    /\ crawlStatus = "running"
    /\ Len(queue) > 0
    /\ Len(fetchLog) < MaxFetches
    /\ LET url == queue[Len(queue)]
           rest == SubSeq(queue, 1, Len(queue) - 1)
       IN  /\ url \notin cache
           /\ \E page \in [links : SeqsUpTo(Hrefs, MaxLinks - TotalLinks(site)),
                           doc : PageDocs] :
                 /\ PageOf(url) \in DOMAIN site => page = site[PageOf(url)]
                 /\ site' = (PageOf(url) :> page) @@ site
                 /\ cache' = cache \cup {url}
                 /\ fetchLog' = Append(fetchLog, url)
                 /\ queue' = rest \o LinksToQueue(page.links, cache', SourceUrl)
                 /\ wsnippets' = wsnippets \o
                        PageSnippets(page.doc, url, "python", "lib", "1.2.0")
                 /\ crawlStatus' = AfterIteration(queue')
    /\ UNCHANGED <<versionVars, driverVars, importVars>>
    /\ UNCHANGED unitVars

\* lines 328-333: html_to_md_tree raises (the request or the conversion fails);
\* nothing in extract_from_website catches it
CrawlFetchRaises ==
    /\ crawlStatus = "running"
    /\ Len(queue) > 0
    /\ Len(fetchLog) < MaxFetches
    /\ LET url == queue[Len(queue)]
       IN  /\ url \notin cache
           /\ cache' = cache \cup {url}
           /\ fetchLog' = Append(fetchLog, url)
           /\ queue' = SubSeq(queue, 1, Len(queue) - 1)
           /\ crawlStatus' = "failed"
    /\ UNCHANGED <<wsnippets, site>>
    /\ UNCHANGED <<versionVars, driverVars, importVars>>
    /\ UNCHANGED unitVars

NextCrawl == CrawlSkip \/ CrawlFetch \/ CrawlFetchRaises

----------------------------------------------------------------------------
(* Per-file extraction: extractor.py 72-164                                *)

\* A path below a clone: the clone directory and the part relative to it
FilePath(root, f) == [root |-> root, rel |-> f.dir \o "/" \o f.stem \o "." \o f.suffix]

\* str(path)
PathStr(path) == path.root \o "/" \o path.rel

\* str(Path(x)) without relative_to(repo): the clone directory stays in the path
RelativeTo_Absolute(path, repo) == PathStr(path)

\* str(Path(x).relative_to(repo))
RelativeTo(path, repo) == path.rel

\* _extractor_by_filetype after the three @register_extractor decorators
RegisteredFiletypes == {"md", "ipynb", "rst"}

Ok(v)  == [kind |-> "ret", val |-> v, exc |-> ""]
Err(e) == [kind |-> "raise", val |-> <<>>, exc |-> e]

\* extract(file): the suffix selects the extractor; every extractor refuses
\* what is not a file and reads the text before it parses
extract(f, root) ==
    IF f.suffix \notin RegisteredFiletypes THEN Err("NotImplementedError")
    ELSE IF ~f.is_file THEN Err("ValueError")
    ELSE IF ~f.readable THEN Err("ReadError")
    ELSE Ok(extract_from_markdown_tree(f.doc, FilePath(root, f)))

----------------------------------------------------------------------------
(* Repository driver: importer.py 173-235                                  *)

Snippet(description, code, language, source, package_name, version) ==
    [description |-> description, code |-> code, language |-> language,
     source |-> source, package_name |-> package_name, version |-> version]

DocSuffixes == <<"md", "rst", "ipynb", "html">>

\* Path.glob / Path.full_match for the patterns the model uses
GlobMatches(pattern, f) ==
    CASE pattern = "**/*"      -> TRUE
      [] pattern = "docs/**/*" -> f.dir = "docs"
      [] pattern = "**/*.md"   -> f.suffix = "md"
      [] pattern = "**/*.rst"  -> f.suffix = "rst"
      [] pattern = "**/*.ipynb" -> f.suffix = "ipynb"
      [] pattern = "**/*.html" -> f.suffix = "html"

\* lines 193-214: the files handed to extract, in the order of the listing
RepoPaths(include_files, files) ==
    IF include_files.present
    THEN LET Sel(f) ==
                /\ \E i \in 1..Len(include_files.patterns) :
                      GlobMatches(include_files.patterns[i], f)
                /\ \E j \in 1..Len(DocSuffixes) : f.suffix = DocSuffixes[j]
         IN  SelectSeq(files, Sel)
    ELSE LET OfSuffix(x) == SelectSeq(files, LAMBDA f : f.suffix = x)
         IN  OfSuffix("md") \o OfSuffix("rst") \o OfSuffix("ipynb") \o OfSuffix("html")

\* lines 216-217: the first file whose extractor raises ends the loop
RECURSIVE ExtractFiles(_, _, _)
ExtractFiles(paths, root, sofar) ==
    IF paths = <<>> THEN Ok(sofar)
    ELSE LET r == extract(Head(paths), root)
         IN  IF r.kind = "raise" THEN r
             ELSE ExtractFiles(Tail(paths), root, sofar \o r.val)

\* lines 221-222: the PartialSnippets that are not skipped
KeptByLanguage(partials, language) ==
    SelectSeq(partials,
              LAMBDA ps : ~(ps.language # None /\ ps.language # language))

\* `snippet.language or library.language`
LanguageOr(declared, fallback) ==
    IF declared = None \/ declared = "" THEN fallback ELSE declared

\* lines 219-235
PromoteAll(partials, library, repo, version) ==
    LET kept == KeptByLanguage(partials, library.language)
    IN  [i \in 1..Len(kept) |->
            Snippet(kept[i].description, kept[i].snippet,
                    LanguageOr(kept[i].language, library.language),
                    RelativeTo(kept[i].source, repo.path),
                    library.name, version)]

extract_from_repo(library, source, repo, version) ==
    LET r == ExtractFiles(RepoPaths(source.include_files, repo.files), repo.path, <<>>)
    IN  IF r.kind = "raise" THEN [r EXCEPT !.val = <<>>]
        ELSE Ok(PromoteAll(r.val, library, repo, version))

----------------------------------------------------------------------------
(* Snippet-directory driver: importer.py 238-302                           *)

EntryName(e) == IF e.suffix = "" THEN e.stem ELSE e.stem \o "." \o e.suffix

EntryPath(root, d, e) == [root |-> root, rel |-> d.dir \o "/" \o EntryName(e)]

\* lines 257-268: the marker files found, in the order of the listing
DescriptionPaths(include_files, dirs) ==
    IF include_files.present
    THEN SelectSeq(dirs, LAMBDA d :
             \E i \in 1..Len(include_files.patterns) :
                 GlobMatches(include_files.patterns[i],
                             [dir |-> d.dir, stem |-> "_description", suffix |-> "md"]))
    ELSE dirs

\* extract_from_snipdir without the test of lines 285-287
SiblingSnippets_NoFilter(d, library, repo, version) ==
    LET Taken(e) == e.is_file /\ EntryName(e) # "_description.md"
        taken == SelectSeq(d.entries, Taken)
    IN  [i \in 1..Len(taken) |->
            Snippet(d.description, taken[i].content, taken[i].stem,
                    RelativeTo(EntryPath(repo.path, d, taken[i]), repo.path),
                    library.name, version)]

\* lines 275-300: the Snippets of one directory that holds a marker
SiblingSnippets(d, library, repo, version) ==
    LET Taken(e) ==
            /\ e.is_file
            /\ EntryName(e) # "_description.md"
            /\ ~(e.stem # library.language)
        taken == SelectSeq(d.entries, Taken)
    IN  [i \in 1..Len(taken) |->
            Snippet(d.description, taken[i].content, library.language,
                    RelativeTo(EntryPath(repo.path, d, taken[i]), repo.path),
                    library.name, version)]

RECURSIVE SnipdirAll(_, _, _, _)
SnipdirAll(ds, library, repo, version) ==
    IF ds = <<>> THEN <<>>
    ELSE SiblingSnippets(Head(ds), library, repo, version)
            \o SnipdirAll(Tail(ds), library, repo, version)

extract_from_snipdir(library, source, repo, version) ==
    Ok(SnipdirAll(DescriptionPaths(source.include_files, repo.dirs),
                  library, repo, version))

----------------------------------------------------------------------------
(* Inputs of the two drivers                                               *)

MaxExtraFiles == 1
MaxDirs       == 2

Nodes == { Heading("H"), Heading(""), Paragraph("P"),
           Fence("python", "f1"), Fence("java", "f2"), Fence("", "f3"),
           CodeBlock("c4"), Quote("q5") }

Docs == SeqsUpTo(Nodes, MaxNodes)

File(dir, stem, suffix, is_file, readable, doc) ==
    [dir |-> dir, stem |-> stem, suffix |-> suffix, is_file |-> is_file,
     readable |-> readable, doc |-> doc]

MdFiles == {File("docs", "a", "md", TRUE, TRUE, doc) : doc \in Docs}

ExtraFiles ==
    { File("docs", "b", "rst", TRUE, TRUE, <<Paragraph("P"), CodeBlock("r1")>>),
      File("nb", "n", "ipynb", TRUE, TRUE, <<Fence("python", "n1")>>),
      File("nb", "m", "ipynb", TRUE, FALSE, <<>>),
      File("site", "p", "html", TRUE, TRUE, <<>>),
      File("docs", "d", "md", FALSE, TRUE, <<>>),
      File("docs", "t", "txt", TRUE, TRUE, <<>>) }

IncludeNone == [present |-> FALSE, patterns |-> <<>>]
Include(ps) == [present |-> TRUE, patterns |-> ps]

IncludeChoices == {IncludeNone, Include(<<"docs/**/*">>), Include(<<"**/*.md", "**/*">>)}

Languages == {"python", "go"}

LibraryOf(language) == [name |-> "lib", github |-> "G", language |-> language]

Entry(stem, suffix, is_file, content) ==
    [stem |-> stem, suffix |-> suffix, is_file |-> is_file, content |-> content]

Marker == Entry("_description", "md", TRUE, "")

SiblingEntries ==
    { Entry("python", "md", TRUE, "py-code"),
      Entry("go", "md", TRUE, "go-code"),
      Entry("python", "txt", TRUE, "py-text"),
      Entry("assets", "", FALSE, "") }

RECURSIVE SetToSeq(_)
SetToSeq(S) ==
    IF S = {} THEN <<>>
    ELSE LET x == CHOOSE y \in S : TRUE IN <<x>> \o SetToSeq(S \ {x})

\* A directory with a marker: the marker and some siblings, as iterdir lists them
SnippetDirs(dir) ==
    { [dir |-> dir, description |-> "How to " \o dir,
       entries |-> <<Marker>> \o SetToSeq(sibs)] : sibs \in SUBSET SiblingEntries }

DirNames == <<"foo", "bar", "baz", "qux">>

RECURSIVE DirLists(_)
DirLists(n) ==
    IF n = 0 THEN {<<>>}
    ELSE DirLists(n - 1) \cup
         {Append(ds, d) : ds \in {x \in DirLists(n - 1) : Len(x) = n - 1},
                          d \in SnippetDirs(DirNames[n])}

\* One call of extract_from_repo on a clone at /tmp/r
CallExtractFromRepo ==
    /\ dOut.kind = "idle"
    /\ \E language \in Languages, include \in IncludeChoices,
          md \in MdFiles, extra \in DistinctSeqsUpTo(ExtraFiles, MaxExtraFiles) :
          LET library == LibraryOf(language)
              source  == [include_files |-> include]
              repo    == [path |-> "/tmp/r", files |-> <<md>> \o extra, dirs |-> <<>>]
              r       == extract_from_repo(library, source, repo, "1.2.0")
              parts   == ExtractFiles(RepoPaths(include, repo.files), repo.path, <<>>)
          IN  /\ dIn' = [driver |-> "repo", library |-> library,
                         source |-> source, repo |-> repo]
              /\ dOut' = [kind |-> r.kind, snips |-> r.val, exc |-> r.exc,
                          partials |-> parts.val]
    /\ UNCHANGED <<versionVars, crawlVars, importVars>>
    /\ UNCHANGED unitVars

\* One call of extract_from_snipdir on a clone at /tmp/r
CallExtractFromSnipdir ==
    /\ dOut.kind = "idle"
    /\ \E language \in Languages, include \in IncludeChoices,
          dirs \in DirLists(MaxDirs) :
          LET library == LibraryOf(language)
              source  == [include_files |-> include]
              repo    == [path |-> "/tmp/r", files |-> <<>>, dirs |-> dirs]
              r       == extract_from_snipdir(library, source, repo, "1.2.0")
          IN  /\ dIn' = [driver |-> "snipdir", library |-> library,
                         source |-> source, repo |-> repo]
              /\ dOut' = [kind |-> r.kind, snips |-> r.val, exc |-> r.exc,
                          partials |-> <<>>]
    /\ UNCHANGED <<versionVars, crawlVars, importVars>>
    /\ UNCHANGED unitVars

NextDrivers == CallExtractFromRepo \/ CallExtractFromSnipdir

----------------------------------------------------------------------------
(* Clone cache: importer.py 115-154                                        *)

NoScope == [url |-> "", path |-> "", owner |-> FALSE, open |-> FALSE]

\* tempfile.TemporaryDirectory(): a name not used before
DirName(n) == "/tmp/" \o ToString(n)

\* clone_repo that never looks into _repo_cache
CloneEnter_NoCache(url, st) ==
    LET path == DirName(st.nextDir + 1)
    IN  [repoCache  |-> (url :> path) @@ st.repoCache,
         liveDirs   |-> st.liveDirs \cup {path},
         nextDir    |-> st.nextDir + 1,
         cloneCount |-> (url :> (IF url \in DOMAIN st.cloneCount
                                 THEN st.cloneCount[url] + 1 ELSE 1))
                        @@ st.cloneCount,
         scope      |-> [url |-> url, path |-> path, owner |-> TRUE, open |-> TRUE]]

\* clone_repo up to its yield, lines 135-150: st holds _repo_cache, the
\* directories, and the count of git clone executions
CloneEnter(url, st) ==
    IF url \in DOMAIN st.repoCache
    THEN [repoCache  |-> st.repoCache,
          liveDirs   |-> st.liveDirs,
          nextDir    |-> st.nextDir,
          cloneCount |-> st.cloneCount,
          scope      |-> [url |-> url, path |-> st.repoCache[url],
                          owner |-> FALSE, open |-> TRUE]]
    ELSE LET path == DirName(st.nextDir + 1)
         IN  [repoCache  |-> (url :> path) @@ st.repoCache,
              liveDirs   |-> st.liveDirs \cup {path},
              nextDir    |-> st.nextDir + 1,
              cloneCount |-> (url :> (IF url \in DOMAIN st.cloneCount
                                      THEN st.cloneCount[url] + 1 ELSE 1))
                             @@ st.cloneCount,
              scope      |-> [url |-> url, path |-> path, owner |-> TRUE,
                              open |-> TRUE]]

\* clone_repo after its yield, lines 137 and 151-154
CloneExit(scope, st) ==
    IF scope.open /\ scope.owner
    THEN [st EXCEPT !.liveDirs = @ \ {scope.path},
                    !.repoCache = [u \in DOMAIN @ \ {scope.url} |-> @[u]]]
    ELSE st

CloneState == [repoCache |-> repoCache, liveDirs |-> liveDirs,
               nextDir |-> nextDir, cloneCount |-> cloneCount]

SetCloneState(st) ==
    /\ repoCache' = st.repoCache
    /\ liveDirs' = st.liveDirs
    /\ nextDir' = st.nextDir
    /\ cloneCount' = st.cloneCount

----------------------------------------------------------------------------
(* Point identity and upsert: models.py 17-41, importer.py 385-416         *)

\* an identifier built from context, package name, language and version only
uuid_FourValues(s) == <<s.description, s.package_name, s.language, s.version>>

\* Snippet.uuid: the digest of str(self), which prints every field
uuid(s) == <<s.description, s.code, s.language, s.source, s.package_name, s.version>>

document(s) == s.description

metadata(s) == [code |-> s.code, language |-> s.language, source |-> s.source,
                package_name |-> s.package_name, version |-> s.version]

\* PointStruct of lines 407-414; the vector is left empty for an empty description
Point(s) == [id |-> uuid(s), has_vector |-> s.description # "",
             document |-> document(s), metadata |-> metadata(s)]

\* client.upsert: a point with the id of an existing point replaces it
UpsertPoint(points, p) == {q \in points : q.id # p.id} \cup {p}

RECURSIVE upsert_snippets(_, _)
upsert_snippets(points, snippets) ==
    IF snippets = <<>> THEN points
    ELSE upsert_snippets(UpsertPoint(points, Point(Head(snippets))), Tail(snippets))

Ids(points) == {q.id : q \in points}

----------------------------------------------------------------------------
(* What an import reads                                                    *)

MaxSources == 2

Library == LibraryOf("python")

\* The repositories behind the URLs "G" (the library's own), "H" and "X"
RepoAt(url, path) ==
    CASE url = "G" ->
            [path |-> path,
             files |-> <<File("docs", "a", "md", TRUE, TRUE,
                              <<Heading("H"), Fence("python", "f1"), Fence("java", "f2")>>)>>,
             dirs |-> <<[dir |-> "foo", description |-> "How to foo",
                         entries |-> <<Marker, Entry("python", "md", TRUE, "py-code"),
                                       Entry("go", "md", TRUE, "go-code")>>]>>]
      [] url = "H" ->
            [path |-> path,
             files |-> <<File("docs", "b", "rst", TRUE, TRUE,
                              <<Paragraph("P"), CodeBlock("r1")>>)>>,
             dirs |-> <<[dir |-> "bar", description |-> "",
                         entries |-> <<Marker, Entry("python", "md", TRUE, "py-bar")>>]>>]
      [] url = "X" ->
            [path |-> path,
             files |-> <<File("docs", "a", "md", TRUE, TRUE, <<CodeBlock("x1")>>),
                         File("site", "p", "html", TRUE, TRUE, <<>>)>>,
             dirs |-> <<>>]

\* The website behind SourceUrl: two pages that link to each other
ImportSite ==
    (<<"d">> :> [links |-> << <<"d","/","a">>, <<"d","/","a","#","x">>, <<"o","/","a">> >>,
                 doc |-> <<Heading("W"), Fence("python", "w1")>>])
    @@ (<<"d","/","a">> :> [links |-> << <<"d">> >>, doc |-> <<CodeBlock("w2")>>])

FixedVersion == [version_type |-> "version", value |-> "1.2.0"]
ByTags       == [version_type |-> "github_tags", value |-> "H"]

Source(src_type, url, version_by) ==
    [name |-> "s", language |-> "python", url |-> url, src_type |-> src_type,
     include_files |-> IncludeNone, version_by |-> version_by]

SourceChoices ==
    { Source("repo", "G", FixedVersion), Source("repo", "H", FixedVersion),
      Source("repo", "H", ByTags), Source("repo", "X", FixedVersion),
      Source("snippets_dir", "G", FixedVersion),
      Source("snippets_dir", "H", FixedVersion),
      Source("website", "d", FixedVersion),
      Source(None, "G", FixedVersion) }

\* get_default_config, models.py 83-92
get_default_config(library) ==
    [description |-> None,
     sources |-> <<[name |-> library.name, language |-> library.language,
                    url |-> library.github, src_type |-> "repo",
                    include_files |-> IncludeNone,
                    version_by |-> [version_type |-> "version", value |-> "latest"]]>>]

\* The configuration file of the library's repository: absent, a list of
\* sources, or a file that model_validate_json rejects
Worlds ==
    {[config |-> "absent", sources |-> <<>>], [config |-> "invalid", sources |-> <<>>]}
    \cup [config : {"file"}, sources : SeqsUpTo(SourceChoices, MaxSources) \ {<<>>}]

\* get_library_config, lines 157-170
get_library_config(library, w) ==
    IF w.config = "file" THEN [description |-> None, sources |-> w.sources]
    ELSE get_default_config(library)

Config == get_library_config(Library, world)

\* What the tag listing of "H" answers during one call
ImportNets ==
    [pypi : {NotAsked}, release : {NotAsked},
     tags : {[kind |-> "raise"], [kind |-> "notok"],
             [kind |-> "ok", tags |-> <<"v1.2.0", "v1.10.0">>]}]

\* extract_from_website, lines 327-349, on a served site; `down` is the page
\* whose request fails during this call, if any
RECURSIVE CrawlAll(_, _, _, _, _, _)
CrawlAll(st, pages, down, library, source_url, version) ==
    IF Len(st.queue) = 0 THEN Ok(st.snippets)
    ELSE LET url == st.queue[Len(st.queue)]
             rest == SubSeq(st.queue, 1, Len(st.queue) - 1)
         IN  IF url \in st.cache
             THEN CrawlAll([st EXCEPT !.queue = rest], pages, down,
                           library, source_url, version)
             ELSE IF PageOf(url) = down \/ PageOf(url) \notin DOMAIN pages
             THEN Err("FetchError")
             ELSE LET seen == st.cache \cup {url}
                      page == pages[PageOf(url)]
                  IN  CrawlAll([cache |-> seen,
                                queue |-> rest \o LinksToQueue(page.links, seen, source_url),
                                snippets |-> st.snippets \o
                                    PageSnippets(page.doc, url, library.language,
                                                 library.name, version)],
                               pages, down, library, source_url, version)

extract_from_website(library, source_url, version, pages, down) ==
    CrawlAll([cache |-> {}, queue |-> <<source_url>>, snippets |-> <<>>],
             pages, down, library, source_url, version)

----------------------------------------------------------------------------
(* import_library and extract_all: importer.py 352-382, 419-439            *)

CurrentSource == Config.sources[srcIdx]

\* What a finished run leaves behind: how it ended, the source that raised
\* (0 if none), the sources whose extraction completed, the ids upserted by
\* the run and the ids in the collection at its end
HistEntry(outcome, failedAt, processed, upserted, points) ==
    [outcome |-> outcome, failedAt |-> failedAt, processed |-> processed,
     sources |-> Len(Config.sources), versions |-> versions',
     upserted |-> upserted, ids |-> Ids(points), store |-> points]

\* an exception path that upserts what was collected before the exception
RaiseOutOfSource_UpsertsCollected(st) ==
    /\ SetCloneState(CloneExit(libScope, CloneExit(srcScope, st)))
    /\ libScope' = NoScope
    /\ srcScope' = NoScope
    /\ pc' = "finished"
    /\ store' = upsert_snippets(store, acc)
    /\ hist' = Append(hist, HistEntry("raised", srcIdx, 1..(srcIdx - 1), {}, store'))
    /\ UNCHANGED <<srcIdx, acc>>

\* An exception leaves extract_all: the finally blocks of the open scopes
\* run, innermost first, and import_library ends without upserting
RaiseOutOfSource(st) ==
    /\ SetCloneState(CloneExit(libScope, CloneExit(srcScope, st)))
    /\ libScope' = NoScope
    /\ srcScope' = NoScope
    /\ pc' = "finished"
    /\ hist' = Append(hist, HistEntry("raised", srcIdx, 1..(srcIdx - 1), {}, store))
    /\ UNCHANGED <<srcIdx, acc, store>>

\* lines 427-432: the library's repository is cloned and its configuration read
StartImport ==
    /\ pc \in {"idle", "finished"}
    /\ run < 2
    /\ \E w \in Worlds :
          /\ run = 1 => w = world
          /\ w.config # "invalid"
          /\ world' = w
    /\ run' = run + 1
    /\ LET st == CloneEnter(Library.github, [CloneState EXCEPT !.cloneCount = <<>>])
       IN  /\ SetCloneState(st)
           /\ libScope' = st.scope
    /\ srcScope' = NoScope
    /\ srcIdx' = 1
    /\ acc' = <<>>
    /\ versions' = <<>>
    /\ pc' = "next_source"
    /\ UNCHANGED <<store, hist>>
    /\ UNCHANGED <<versionVars, crawlVars, driverVars>>
    /\ UNCHANGED unitVars

\* lines 430-431 with 165-168: the configuration file does not validate; the
\* exception leaves the with block and import_library
LoadConfigRaises ==
    /\ pc \in {"idle", "finished"}
    /\ run < 2
    /\ \E w \in Worlds :
          /\ run = 1 => w = world
          /\ w.config = "invalid"
          /\ world' = w
    /\ run' = run + 1
    /\ LET st == CloneEnter(Library.github, [CloneState EXCEPT !.cloneCount = <<>>])
       IN  SetCloneState(CloneExit(st.scope, st))
    /\ libScope' = NoScope
    /\ srcScope' = NoScope
    /\ srcIdx' = 0
    /\ acc' = <<>>
    /\ versions' = <<>>
    /\ pc' = "finished"
    /\ hist' = Append(hist, [outcome |-> "raised", failedAt |-> 0, processed |-> {},
                             sources |-> 0, versions |-> <<>>, upserted |-> {},
                             ids |-> Ids(store), store |-> store])
    /\ UNCHANGED store
    /\ UNCHANGED <<versionVars, crawlVars, driverVars>>
    /\ UNCHANGED unitVars

\* line 368: get_version for the source at srcIdx
ResolveSourceVersion ==
    /\ pc = "next_source"
    /\ srcIdx <= Len(Config.sources)
    /\ \E net \in ImportNets :
          LET r == get_version(CurrentSource.version_by, net)
          IN  IF r.kind = "raise"
              THEN /\ versions' = versions
                   /\ RaiseOutOfSource(CloneState)
              ELSE /\ versions' = Append(versions, r.val)
                   /\ pc' = "dispatch"
                   /\ UNCHANGED <<srcIdx, repoCache, liveDirs, nextDir, cloneCount,
                                  libScope, srcScope, acc, store, hist>>
    /\ UNCHANGED <<world, run>>
    /\ UNCHANGED <<versionVars, crawlVars, driverVars>>
    /\ UNCHANGED unitVars

\* lines 370 and 373: `with clone_repo(source.url) as src_repo`
EnterSourceClone ==
    /\ pc = "dispatch"
    /\ CurrentSource.src_type \in {"repo", "snippets_dir"}
    /\ LET st == CloneEnter(CurrentSource.url, CloneState)
       IN  /\ SetCloneState(st)
           /\ srcScope' = st.scope
    /\ pc' = "in_scope"
    /\ UNCHANGED <<world, run, srcIdx, libScope, acc, versions, store, hist>>
    /\ UNCHANGED <<versionVars, crawlVars, driverVars>>
    /\ UNCHANGED unitVars

\* lines 371 and 374-376: the driver runs on the clone
ExtractSource ==
    /\ pc = "in_scope"
    /\ LET repo == RepoAt(CurrentSource.url, srcScope.path)
           r == IF CurrentSource.src_type = "repo"
                THEN extract_from_repo(Library, CurrentSource, repo, versions[srcIdx])
                ELSE extract_from_snipdir(Library, CurrentSource, repo, versions[srcIdx])
       IN  IF r.kind = "raise"
           THEN /\ versions' = versions
                /\ RaiseOutOfSource(CloneState)
           ELSE /\ acc' = acc \o r.val
                /\ pc' = "leave_scope"
                /\ UNCHANGED <<srcIdx, repoCache, liveDirs, nextDir, cloneCount,
                               libScope, srcScope, versions, store, hist>>
    /\ UNCHANGED <<world, run>>
    /\ UNCHANGED <<versionVars, crawlVars, driverVars>>
    /\ UNCHANGED unitVars

\* the end of the with block of lines 370-376
LeaveSourceClone ==
    /\ pc = "leave_scope"
    /\ SetCloneState(CloneExit(srcScope, CloneState))
    /\ srcScope' = NoScope
    /\ srcIdx' = srcIdx + 1
    /\ pc' = "next_source"
    /\ UNCHANGED <<world, run, libScope, acc, versions, store, hist>>
    /\ UNCHANGED <<versionVars, crawlVars, driverVars>>
    /\ UNCHANGED unitVars

\* lines 377-378: a website source
ExtractWebsite ==
    /\ pc = "dispatch"
    /\ CurrentSource.src_type = "website"
    /\ \E down \in {<<>>} \cup DOMAIN ImportSite :
          LET r == extract_from_website(Library, SourceUrl, versions[srcIdx],
                                        ImportSite, down)
          IN  IF r.kind = "raise"
              THEN /\ versions' = versions
                   /\ RaiseOutOfSource(CloneState)
              ELSE /\ acc' = acc \o r.val
                   /\ srcIdx' = srcIdx + 1
                   /\ pc' = "next_source"
                   /\ UNCHANGED <<repoCache, liveDirs, nextDir, cloneCount,
                                  libScope, srcScope, versions, store, hist>>
    /\ UNCHANGED <<world, run>>
    /\ UNCHANGED <<versionVars, crawlVars, driverVars>>
    /\ UNCHANGED unitVars

\* lines 379-380: no driver for the source type
UnknownSourceType ==
    /\ pc = "dispatch"
    /\ CurrentSource.src_type \notin {"repo", "snippets_dir", "website"}
    /\ versions' = versions
    /\ RaiseOutOfSource(CloneState)
    /\ UNCHANGED <<world, run>>
    /\ UNCHANGED <<versionVars, crawlVars, driverVars>>
    /\ UNCHANGED unitVars

\* line 382 and the end of the with block of lines 430-432
FinishExtract ==
    /\ pc = "next_source"
    /\ srcIdx > Len(Config.sources)
    /\ SetCloneState(CloneExit(libScope, CloneState))
    /\ libScope' = NoScope
    /\ pc' = "upsert"
    /\ UNCHANGED <<world, run, srcIdx, srcScope, acc, versions, store, hist>>
    /\ UNCHANGED <<versionVars, crawlVars, driverVars>>
    /\ UNCHANGED unitVars

\* lines 434-439: every collected snippet is upserted
UpsertSnippets ==
    /\ pc = "upsert"
    /\ store' = upsert_snippets(store, acc)
    /\ versions' = versions
    /\ cloneCount' = cloneCount
    /\ hist' = Append(hist, HistEntry("ok", 0, 1..Len(Config.sources),
                                     {uuid(acc[i]) : i \in 1..Len(acc)}, store'))
    /\ pc' = "finished"
    /\ UNCHANGED <<world, run, srcIdx, repoCache, liveDirs, nextDir,
                   libScope, srcScope, acc>>
    /\ UNCHANGED <<versionVars, crawlVars, driverVars>>
    /\ UNCHANGED unitVars

NextImport ==
    \/ StartImport
    \/ LoadConfigRaises
    \/ ResolveSourceVersion
    \/ EnterSourceClone
    \/ ExtractSource
    \/ LeaveSourceClone
    \/ ExtractWebsite
    \/ UnknownSourceType
    \/ FinishExtract
    \/ UpsertSnippets

----------------------------------------------------------------------------
(* clone_repo, statement by statement, on threads that share _repo_cache:  *)
(* importer.py 121-154; the threads are the workers that serve the sync    *)
(* endpoint of tools/server.py 30-36                                       *)

MaxCalls == 2

Threads == {1, 2}

CloneUrls == {"G", "H"}

\* a thread outside clone_repo
Outside(last) == [pc |-> "outside", url |-> "", repo |-> None, path |-> None,
                  pending |-> None, last |-> last]

\* what a finished call leaves: the exception that entered the finally
\* block (None if none), the exception that left clone_repo (None if none),
\* whether this call created a directory, and that directory
Ended(t, raised) == [pending |-> thr[t].pending, raised |-> raised,
                     repo |-> thr[t].repo, url |-> thr[t].url]

NoCall == [pending |-> None, raised |-> None, repo |-> None, url |-> ""]

CloneFrame == UNCHANGED <<pipelineVars, schemaVars, pointVars, treeVars>>

\* `with clone_repo(url)` is reached
CloneCall(t) ==
    /\ thr[t].pc = "outside"
    /\ callsLeft[t] > 0
    /\ \E url \in CloneUrls :
          thr' = [thr EXCEPT ![t] = [Outside(NoCall) EXCEPT !.pc = "check", !.url = url]]
    /\ callsLeft' = [callsLeft EXCEPT ![t] = @ - 1]
    /\ UNCHANGED <<sharedCache, tmpDirs, dirCount>>
    /\ CloneFrame

\* lines 135-136: a cached clone is yielded as it is
CloneCacheHit(t) ==
    /\ thr[t].pc = "check"
    /\ thr[t].url \in DOMAIN sharedCache
    /\ thr' = [thr EXCEPT ![t].pc = "body", ![t].path = sharedCache[thr[t].url]]
    /\ UNCHANGED <<callsLeft, sharedCache, tmpDirs, dirCount>>
    /\ CloneFrame

\* lines 135 and 139: no cached clone
CloneCacheMiss(t) ==
    /\ thr[t].pc = "check"
    /\ thr[t].url \notin DOMAIN sharedCache
    /\ thr' = [thr EXCEPT ![t].pc = "mkdir"]
    /\ UNCHANGED <<callsLeft, sharedCache, tmpDirs, dirCount>>
    /\ CloneFrame

\* lines 142-143: the temporary directory is created and bound to `repo`
CloneMkdir(t) ==
    /\ thr[t].pc = "mkdir"
    /\ dirCount' = dirCount + 1
    /\ tmpDirs' = tmpDirs \cup {DirName(dirCount + 1)}
    /\ thr' = [thr EXCEPT ![t].pc = "git", ![t].repo = DirName(dirCount + 1)]
    /\ UNCHANGED <<callsLeft, sharedCache>>
    /\ CloneFrame

\* line 142 raises: `repo` is still None, the finally block does nothing
CloneMkdirRaises(t) ==
    /\ thr[t].pc = "mkdir"
    /\ thr' = [thr EXCEPT ![t] = Outside([Ended(t, "OSError") EXCEPT !.pending = "OSError"])]
    /\ UNCHANGED <<callsLeft, sharedCache, tmpDirs, dirCount>>
    /\ CloneFrame

\* lines 144-146: subprocess.run returns (its exit status is not looked at)
CloneGit(t) ==
    /\ thr[t].pc = "git"
    /\ thr' = [thr EXCEPT ![t].pc = "store"]
    /\ UNCHANGED <<callsLeft, sharedCache, tmpDirs, dirCount>>
    /\ CloneFrame

\* lines 144-146: subprocess.run raises (no git executable, no permission)
CloneGitRaises(t) ==
    /\ thr[t].pc = "git"
    /\ thr' = [thr EXCEPT ![t].pc = "cleanup", ![t].pending = "FileNotFoundError"]
    /\ UNCHANGED <<callsLeft, sharedCache, tmpDirs, dirCount>>
    /\ CloneFrame

\* lines 148-150: the clone is cached and yielded
CloneStore(t) ==
    /\ thr[t].pc = "store"
    /\ sharedCache' = (thr[t].url :> thr[t].repo) @@ sharedCache
    /\ thr' = [thr EXCEPT ![t].pc = "body", ![t].path = thr[t].repo]
    /\ UNCHANGED <<callsLeft, tmpDirs, dirCount>>
    /\ CloneFrame

\* the body of the with statement ends, normally or by an exception; the
\* scope of a cached clone has no finally block (lines 136-137)
CloneBodyEnds(t) ==
    /\ thr[t].pc = "body"
    /\ \E exc \in {None, "BodyError"} :
          thr' = [thr EXCEPT ![t] =
                     IF thr[t].repo = None
                     THEN Outside([Ended(t, exc) EXCEPT !.pending = exc])
                     ELSE [thr[t] EXCEPT !.pc = "cleanup", !.pending = exc]]
    /\ UNCHANGED <<callsLeft, sharedCache, tmpDirs, dirCount>>
    /\ CloneFrame

\* lines 152-153: repo.tmpdir.cleanup()
CloneCleanup(t) ==
    /\ thr[t].pc = "cleanup"
    /\ tmpDirs' = tmpDirs \ {thr[t].repo}
    /\ thr' = [thr EXCEPT ![t].pc = "del"]
    /\ UNCHANGED <<callsLeft, sharedCache, dirCount>>
    /\ CloneFrame

\* line 154: del _repo_cache[url]; a missing key raises KeyError, which
\* replaces the exception the finally block was entered with
CloneDel(t) ==
    /\ thr[t].pc = "del"
    /\ IF thr[t].url \in DOMAIN sharedCache
       THEN /\ sharedCache' = [u \in DOMAIN sharedCache \ {thr[t].url} |-> sharedCache[u]]
            /\ thr' = [thr EXCEPT ![t] = Outside(Ended(t, thr[t].pending))]
       ELSE /\ sharedCache' = sharedCache
            /\ thr' = [thr EXCEPT ![t] = Outside(Ended(t, "KeyError"))]
    /\ UNCHANGED <<callsLeft, tmpDirs, dirCount>>
    /\ CloneFrame

NextClone ==
    \E t \in Threads :
        \/ CloneCall(t)
        \/ CloneCacheHit(t)
        \/ CloneCacheMiss(t)
        \/ CloneMkdir(t)
        \/ CloneMkdirRaises(t)
        \/ CloneGit(t)
        \/ CloneGitRaises(t)
        \/ CloneStore(t)
        \/ CloneBodyEnds(t)
        \/ CloneCleanup(t)
        \/ CloneDel(t)

----------------------------------------------------------------------------
(* ensure_collection: importer.py 454-486, and the same steps in           *)
(* encode_snippets.py 221-266                                              *)

CollectionNames == {"docs", "test"}

VectorNames == {"fast-mxbai", "fast-minilm"}

VectorSizes == {384, 1024}

CreateCollection(vector_name, vector_size) ==
    [op |-> "create_collection", field |-> "", schema |-> "",
     vector_name |-> vector_name, vector_size |-> vector_size]

CreatePayloadIndex(field, schema) ==
    [op |-> "create_payload_index", field |-> field, schema |-> schema,
     vector_name |-> "", vector_size |-> 0]

\* the client calls of importer.py 461-486, in order
ImporterSchemaCalls(vector_name, vector_size) ==
    << CreateCollection(vector_name, vector_size),
       CreatePayloadIndex("metadata.package_name", "keyword"),
       CreatePayloadIndex("metadata.language", "keyword") >>

\* the client calls of encode_snippets.py 222-266, in order
EncoderSchemaCalls(vector_name, vector_size) ==
    ImporterSchemaCalls(vector_name, vector_size) \o
    << CreatePayloadIndex("metadata.version.major", "integer"),
       CreatePayloadIndex("metadata.version.minor", "integer"),
       CreatePayloadIndex("metadata.version.patch", "integer") >>

\* what one client call does to the destination
ApplySchemaCall(d, name, call) ==
    IF call.op = "create_collection"
    THEN (name :> [vectors |-> [name |-> call.vector_name, size |-> call.vector_size,
                                distance |-> "Cosine"],
                   indexes |-> {}]) @@ d
    ELSE [d EXCEPT ![name].indexes = @ \cup {[field |-> call.field, schema |-> call.schema]}]

\* the calls are made one after the other; the call numbered fail_at raises
\* (0: none does), and the calls before it have taken effect
RECURSIVE RunSchemaCalls(_, _, _, _, _)
RunSchemaCalls(d, name, calls, fail_at, made) ==
    IF Len(made) = Len(calls) THEN [dest |-> d, calls |-> made, raised |-> FALSE]
    ELSE IF Len(made) + 1 = fail_at THEN [dest |-> d, calls |-> made, raised |-> TRUE]
    ELSE LET call == calls[Len(made) + 1]
         IN  RunSchemaCalls(ApplySchemaCall(d, name, call), name, calls, fail_at,
                            Append(made, call))

\* ensure_collection without the collection_exists test of line 460
ensure_collection_NoExistsTest(d, collection_name, calls, fail_at) ==
    RunSchemaCalls(d, collection_name, calls, fail_at, <<>>)

\* lines 460-486: nothing is created for a collection that exists
ensure_collection(d, collection_name, calls, fail_at) ==
    IF collection_name \in DOMAIN d
    THEN [dest |-> d, calls |-> <<>>, raised |-> FALSE]
    ELSE RunSchemaCalls(d, collection_name, calls, fail_at, <<>>)

NoSchemaCall == [tool |-> "none", collection_name |-> "", vector_name |-> "",
                 vector_size |-> 0, before |-> <<>>, calls |-> <<>>, raised |-> FALSE]

SchemaCallsOf(tool, vector_name, vector_size) ==
    IF tool = "importer" THEN ImporterSchemaCalls(vector_name, vector_size)
    ELSE EncoderSchemaCalls(vector_name, vector_size)

SchemaCall(tool) ==
    \E collection_name \in CollectionNames, vector_name \in VectorNames,
       vector_size \in VectorSizes :
       \E fail_at \in 0..Len(SchemaCallsOf(tool, vector_name, vector_size)) :
          LET r == ensure_collection(dest, collection_name,
                                     SchemaCallsOf(tool, vector_name, vector_size), fail_at)
          IN  /\ dest' = r.dest
              /\ schemaLast' = [tool |-> tool, collection_name |-> collection_name,
                                vector_name |-> vector_name, vector_size |-> vector_size,
                                before |-> dest, calls |-> r.calls, raised |-> r.raised]

\* importer.ensure_collection, as called by importer.main and tools/server.py
CallEnsureCollection ==
    /\ SchemaCall("importer")
    /\ UNCHANGED <<pipelineVars, cloneVars, pointVars, treeVars>>

\* the schema step of encode_snippets.main
CallEncoderSchema ==
    /\ SchemaCall("encoder")
    /\ UNCHANGED <<pipelineVars, cloneVars, pointVars, treeVars>>

NextSchema == CallEnsureCollection \/ CallEncoderSchema

----------------------------------------------------------------------------
(* Point identifiers of the two uploads: models.py 35-41 with importer.py  *)
(* 404-416, and encode_snippets.py 70-75 with 268-300                      *)

\* Snippets as extract_all builds them
PairSnippets ==
    { Snippet(description, code, "python", source, package_name, version) :
        description \in {"", "How to foo"}, code \in {"c1", "c2"},
        source \in {"docs/a.md", "docs/b.md"}, package_name \in {"lib", "lib2"},
        version \in {"1.2.0", "unknown"} }

\* records as process_snippets_directory builds them
EncoderRecord(category, sub_category, language, snippet, description, package_name, version) ==
    [category |-> category, sub_category |-> sub_category, language |-> language,
     snippet |-> snippet, description |-> description,
     package_name |-> package_name, version |-> version]

EncoderRecords ==
    { EncoderRecord(category, sub_category, language, snippet, "How to foo", "lib", version) :
        category \in {"foo", "bar"}, sub_category \in {"()", "('x',)"},
        language \in {"python", "go"}, snippet \in {"c1", "c2"},
        version \in {"{1,2}", "{2,0}"} }

\* the f-string of encode_snippets.py 282-284
EncoderIdContent(r) ==
    r.category \o "_" \o r.sub_category \o "_" \o r.language \o "_" \o
    r.package_name \o "_" \o r.version

\* encode_snippets.py 70-75: the identifier is the digest of the content;
\* equal contents give equal identifiers, different contents different ones
generate_uuid_from_content(content) == <<"sha256", content>>

\* encode_snippets.py 272-298: description becomes the document, the rest
\* the metadata
EncoderPoint(r) ==
    [id |-> generate_uuid_from_content(EncoderIdContent(r)),
     has_vector |-> TRUE,
     document |-> r.description,
     metadata |-> [category |-> r.category, sub_category |-> r.sub_category,
                   language |-> r.language, snippet |-> r.snippet,
                   package_name |-> r.package_name, version |-> r.version]]

RECURSIVE EncoderUpload(_, _)
EncoderUpload(points, records) ==
    IF records = <<>> THEN points
    ELSE EncoderUpload(UpsertPoint(points, EncoderPoint(Head(records))), Tail(records))

\* upsert_snippets on two snippets and an empty collection
UploadPair ==
    /\ pTool = "none"
    /\ \E a \in PairSnippets, b \in PairSnippets :
          /\ pPair' = <<a, b>>
          /\ pStore' = upsert_snippets({}, <<a, b>>)
    /\ pTool' = "importer"
    /\ UNCHANGED <<pipelineVars, cloneVars, schemaVars, treeVars>>

\* the upload loop of encode_snippets.main on two records and an empty collection
EncoderUploadPair ==
    /\ pTool = "none"
    /\ \E a \in EncoderRecords, b \in EncoderRecords :
          /\ pPair' = <<a, b>>
          /\ pStore' = EncoderUpload({}, <<a, b>>)
    /\ pTool' = "encoder"
    /\ UNCHANGED <<pipelineVars, cloneVars, schemaVars, treeVars>>

NextPoints == UploadPair \/ EncoderUploadPair

----------------------------------------------------------------------------
(* _extract_from_markdown_tree on its own: extractor.py 26-69              *)

MaxTreeNodes == 4

TreeSource == "docs/a.md"

\* children of a root: headings with and without text, paragraphs, both
\* kinds of code node, and a block quote that holds a fence
TreeNodes == { Heading("A"), Heading("B"), Heading(""),
               Paragraph("P"), Paragraph("Q"),
               Fence("python", "f1"), CodeBlock("c2"), Quote("q3") }

CallExtractTree ==
    /\ ~tDone
    /\ \E root \in SeqsUpTo(TreeNodes, MaxTreeNodes) :
          /\ tRoot' = root
          /\ tOut' = extract_from_markdown_tree(root, TreeSource)
    /\ tDone' = TRUE
    /\ UNCHANGED <<pipelineVars, cloneVars, schemaVars, pointVars>>

----------------------------------------------------------------------------
(* Initial values of each component                                        *)

InitVersion ==
    /\ vCfg = [version_type |-> "version", value |-> "latest"]
    /\ vNet = [pypi |-> NotAsked, release |-> NotAsked, tags |-> NotAsked]
    /\ vResult = NoResult

InitCrawlIdle ==
    /\ cache = {}
    /\ queue = <<>>
    /\ wsnippets = <<>>
    /\ site = <<>>
    /\ fetchLog = <<>>
    /\ crawlStatus = "done"

InitDriversIdle ==
    /\ dIn = [driver |-> "none"]
    /\ dOut = [kind |-> "idle", snips |-> <<>>, exc |-> "", partials |-> <<>>]

InitImportIdle ==
    /\ world = [config |-> "absent", sources |-> <<>>]
    /\ pc = "idle"
    /\ run = 0
    /\ srcIdx = 0
    /\ repoCache = <<>>
    /\ liveDirs = {}
    /\ nextDir = 0
    /\ cloneCount = <<>>
    /\ libScope = NoScope
    /\ srcScope = NoScope
    /\ acc = <<>>
    /\ versions = <<>>
    /\ store = {}
    /\ hist = <<>>

InitClone(calls) ==
    /\ thr = [t \in Threads |-> Outside(NoCall)]
    /\ callsLeft = calls
    /\ sharedCache = <<>>
    /\ tmpDirs = {}
    /\ dirCount = 0

InitSchema ==
    /\ dest = <<>>
    /\ schemaLast = NoSchemaCall

InitPoints ==
    /\ pTool = "none"
    /\ pPair = <<>>
    /\ pStore = {}

InitTree ==
    /\ tRoot = <<>>
    /\ tOut = <<>>
    /\ tDone = FALSE

InitUnitsIdle == InitClone([t \in Threads |-> 0]) /\ InitSchema /\ InitPoints /\ InitTree

InitPipelineIdle == InitVersion /\ InitCrawlIdle /\ InitDriversIdle /\ InitImportIdle

VersionInit == InitVersion /\ InitCrawlIdle /\ InitDriversIdle /\ InitImportIdle /\ InitUnitsIdle

SpecVersion == VersionInit /\ [][ResolveVersion]_vars

CrawlInit == InitVersion /\ CrawlEntry /\ InitDriversIdle /\ InitImportIdle /\ InitUnitsIdle

SpecCrawl == CrawlInit /\ [][NextCrawl]_vars

DriversInit == InitVersion /\ InitCrawlIdle /\ InitDriversIdle /\ InitImportIdle /\ InitUnitsIdle

SpecDrivers == DriversInit /\ [][NextDrivers]_vars

ImportInit == InitVersion /\ InitCrawlIdle /\ InitDriversIdle /\ InitImportIdle /\ InitUnitsIdle

SpecImport == ImportInit /\ [][NextImport]_vars

\* two requests served at the same time
CloneInit == InitPipelineIdle /\ InitClone([t \in Threads |-> MaxCalls]) /\ InitSchema /\ InitPoints /\ InitTree

SpecClone == CloneInit /\ [][NextClone]_vars

SchemaInit == InitPipelineIdle /\ InitUnitsIdle

SpecSchema == SchemaInit /\ [][NextSchema]_vars

PointsInit == InitPipelineIdle /\ InitUnitsIdle

SpecPoints == PointsInit /\ [][NextPoints]_vars

TreeInit == InitPipelineIdle /\ InitUnitsIdle

SpecTree == TreeInit /\ [][CallExtractTree]_vars

\* The loop of extract_from_website runs on its own thread of control: an
\* iteration that can be taken is taken
SpecCrawlFair == SpecCrawl /\ WF_vars(NextCrawl)

----------------------------------------------------------------------------
(* Claims about the website driver                                         *)

HasFragment(link) == \E i \in 1..Len(link) : link[i] = "#"

FetchCount(p) ==
    Cardinality({i \in 1..Len(fetchLog) : PageOf(fetchLog[i]) = p})

\* Same-site links of the pages served so far, as pages
LinkedPages(S) ==
    UNION { {PageOf(site[p].links[i]) :
                i \in {k \in 1..Len(site[p].links) :
                          StartsWith(site[p].links[k], SourceUrl)}} :
            p \in S \cap DOMAIN site }

RECURSIVE Reach(_)
Reach(S) == IF LinkedPages(S) \subseteq S THEN S ELSE Reach(S \cup LinkedPages(S))

\* The pages reachable from the start URL over same-site links
ReachablePages == Reach({PageOf(SourceUrl)})

C4_EachReachableOnce ==
    crawlStatus = "done" =>
        /\ queue = <<>>
        /\ \A p \in ReachablePages : FetchCount(p) = 1
        /\ \A i \in 1..Len(fetchLog) : PageOf(fetchLog[i]) \in ReachablePages

C9_FetchFailureContained == crawlStatus # "failed"

\* number of same-site links on a shortest path from the pages of `frontier`
\* to page p, over the pages served so far
RECURSIVE Distance(_, _, _)
Distance(p, frontier, visited) ==
    IF p \in frontier THEN 0
    ELSE LET next == LinkedPages(frontier) \ (visited \cup frontier)
         IN  IF next = {} THEN Cardinality(DOMAIN site) + 1
             ELSE 1 + Distance(p, next, visited \cup frontier)

DistanceFromStart(url) == Distance(PageOf(url), {PageOf(SourceUrl)}, {})

\* C18: the crawl is breadth-first: in a finished crawl the pages were
\* fetched in non-decreasing order of their link distance from the start
\* URL, so no page at distance d+1 was fetched before a page at distance d.
C18_BreadthFirst ==
    crawlStatus = "done" =>
        \A i \in 1..Len(fetchLog) : \A j \in i..Len(fetchLog) :
            DistanceFromStart(fetchLog[i]) <= DistanceFromStart(fetchLog[j])

----------------------------------------------------------------------------
(* Claims about the repository and snippet-directory drivers               *)

\* The language a block declares: a fence's tag; none for an indented block
\* and for a fence without a tag
DeclaredLanguage(ps) ==
    IF ps.language = None \/ ps.language = "" THEN None ELSE ps.language

CodeAndLanguage(snips) ==
    [i \in 1..Len(snips) |-> [code |-> snips[i].code, language |-> snips[i].language]]

\* C2: of the blocks the extractor found, extract_from_repo drops those whose
\* declared language differs from the library's and keeps every block without
\* a declared language (indented, or a fence without a tag), labelled with
\* the library's language.
C2_LanguageFilter ==
    (dIn.driver = "repo" /\ dOut.kind = "ret") =>
    LET language == dIn.library.language
        kept == SelectSeq(dOut.partials, LAMBDA ps :
                    DeclaredLanguage(ps) = None \/ DeclaredLanguage(ps) = language)
    IN  CodeAndLanguage(dOut.snips) =
            [i \in 1..Len(kept) |-> [code |-> kept[i].snippet, language |-> language]]

\* C8: a file that cannot be parsed, or whose suffix has no registered
\* extractor, is skipped: extract_from_repo returns and does not raise.
C8_FileFailureContained == dIn.driver = "repo" => dOut.kind # "raise"

IsSibling(e) == e.is_file /\ EntryName(e) # "_description.md"

RECURSIVE CountEntries(_, _)
CountEntries(ds, language) ==
    IF ds = <<>> THEN 0
    ELSE Cardinality({i \in 1..Len(Head(ds).entries) :
                        /\ IsSibling(Head(ds).entries[i])
                        /\ language \in {"", Head(ds).entries[i].stem}})
         + CountEntries(Tail(ds), language)

\* The output holds exactly one Snippet per sibling regular file of every
\* scanned directory (per sibling whose stem is `language`, unless that is ""),
\* with the description as context, the file's text as code and its stem as
\* language.
OnePerSibling(language) ==
    (dIn.driver = "snipdir" /\ dOut.kind = "ret") =>
    LET ds == DescriptionPaths(dIn.source.include_files, dIn.repo.dirs)
    IN  /\ Len(dOut.snips) = CountEntries(ds, language)
        /\ \A k \in 1..Len(ds) : \A i \in 1..Len(ds[k].entries) :
              LET e == ds[k].entries[i]
              IN  (IsSibling(e) /\ language \in {"", e.stem}) =>
                  \E j \in 1..Len(dOut.snips) :
                     /\ dOut.snips[j].description = ds[k].description
                     /\ dOut.snips[j].code = e.content
                     /\ dOut.snips[j].language = e.stem
                     /\ dOut.snips[j].source = ds[k].dir \o "/" \o EntryName(e)

----------------------------------------------------------------------------
(* Claims about import_library                                             *)

BothRunsCompleted ==
    Len(hist) = 2 /\ hist[1].outcome = "ok" /\ hist[2].outcome = "ok"

C7_SourceFailureIsolated ==
    \A r \in 1..Len(hist) :
        hist[r].failedAt # 0 =>
            LET others == (1..hist[r].sources) \ {hist[r].failedAt}
            IN  /\ hist[r].processed = others
                /\ others # {} => hist[r].outcome = "ok"

\* C10 as claimed: git clone runs at most once per URL during a run.
C10_CloneOncePerUrl ==
    \A u \in DOMAIN cloneCount : cloneCount[u] <= 1

\* C10 as amended: sources whose URL is the library's own repository URL
\* reuse the clone import_library made: git clone runs at most once for that
\* URL during a run, and the scope of such a source is handed the path of
\* the library's clone.
C10_LibraryCloneReused ==
    /\ \A u \in DOMAIN cloneCount : u = Library.github => cloneCount[u] <= 1
    /\ (srcScope.open /\ srcScope.url = Library.github) =>
            /\ libScope.open
            /\ srcScope.path = libScope.path
            /\ srcScope.path \in liveDirs

\* The second of two sources that name the library's repository is inside its
\* clone_repo scope
C10_Witness ==
    /\ pc = "in_scope"
    /\ srcIdx = 2
    /\ Config.sources[1].url = Library.github
    /\ Config.sources[1].src_type \in {"repo", "snippets_dir"}
    /\ srcScope.url = Library.github
    /\ cloneCount[Library.github] = 1

----------------------------------------------------------------------------
(* Claims about the version resolver                                       *)

\* C5: get_version never throws; whatever the policy and whatever the lookups
\* answer, it returns a string.
C5_NeverThrows == vResult.kind # "raise"

\* A tag that is a valid semantic version after removing at most one leading "v"
ValidWithOptionalV(t) ==
    LET c == Chars(t)
    IN  SemverIsValid(IF c # <<>> /\ Head(c) = "v" THEN Tail(c) ELSE c)

KeyWithOptionalV(t) ==
    LET c == Chars(t)
    IN  SemverParse(IF c # <<>> /\ Head(c) = "v" THEN Tail(c) ELSE c)

\* C6: with the policy github_tags and an answered tag listing, the result is
\* a tag that no valid tag (semantic version with an optional leading v)
\* exceeds in semantic-version order, and "unknown" when no tag is valid.
C6_SemanticMaximum ==
    (vResult.kind # "idle" /\ vCfg.version_type = "github_tags"
        /\ vNet.tags.kind = "ok") =>
    LET valid == {t \in Range(vNet.tags.tags) : ValidWithOptionalV(t)}
    IN  /\ vResult.kind = "ret"
        /\ IF valid = {} THEN vResult.val = "unknown"
           ELSE /\ vResult.val \in valid
                /\ \A u \in valid :
                      ~SemverLess(KeyWithOptionalV(vResult.val), KeyWithOptionalV(u))

C15_FixedVerbatim ==
    (vResult.kind # "idle" /\ vCfg.version_type = "version")
    => vResult = Returned(vCfg.value, <<>>)

\* the version policy of the default configuration has been resolved
C15_Witness ==
    /\ vCfg = get_default_config(Library).sources[1].version_by
    /\ vResult = Returned("latest", <<>>)

----------------------------------------------------------------------------
(* Claims about the clone_repo scope                                       *)

\* no other thread has entered clone_repo so far
AloneSoFar(t) ==
    \A o \in Threads \ {t} : thr[o].pc = "outside" /\ callsLeft[o] = MaxCalls

\* C11: on every exit path of a clone_repo scope that created a temporary
\* directory (normal exit, exception in the body, exception while cloning),
\* with no other scope interfering, the directory is deleted, the cache has
\* no entry for the URL, and the exception that leaves clone_repo is the one
\* the finally block was entered with (none on a normal exit).
C11_CleanupOnEveryExit ==
    \A t \in Threads :
        (AloneSoFar(t) /\ thr[t].pc = "outside" /\ thr[t].last.repo # None)
        => /\ thr[t].last.repo \notin tmpDirs
           /\ thr[t].last.url \notin DOMAIN sharedCache
           /\ thr[t].last.raised = thr[t].last.pending

\* C20: under every interleaving of clone_repo scopes, the path a scope was
\* given exists while the body of the scope runs, and no scope ends with the
\* KeyError of a cache entry that it had stored and another scope removed.
C20_CloneValidWhileActive ==
    \A t \in Threads :
        /\ thr[t].pc = "body" => thr[t].path \in tmpDirs
        /\ (thr[t].pc = "outside" /\ thr[t].last.raised = "KeyError")
           => thr[t].last.pending = "FileNotFoundError"

----------------------------------------------------------------------------
(* Claims about the destination schema                                     *)

KeywordIndexes == {[field |-> "metadata.package_name", schema |-> "keyword"],
                   [field |-> "metadata.language", schema |-> "keyword"]}

\* C12: a schema call that returns on an absent collection leaves the
\* collection created with keyword indexes on package name and language;
\* a call on a collection that exists makes no create_collection and no
\* create_payload_index call and leaves the destination as it was.
C12_EnsureCollectionIdempotent ==
    (schemaLast.tool # "none" /\ ~schemaLast.raised)
    => IF schemaLast.collection_name \in DOMAIN schemaLast.before
       THEN schemaLast.calls = <<>> /\ dest = schemaLast.before
       ELSE /\ schemaLast.collection_name \in DOMAIN dest
            /\ KeywordIndexes \subseteq dest[schemaLast.collection_name].indexes
            /\ dest[schemaLast.collection_name].vectors.name = schemaLast.vector_name
            /\ dest[schemaLast.collection_name].vectors.size = schemaLast.vector_size
            /\ \A c \in DOMAIN schemaLast.before : dest[c] = schemaLast.before[c]

\* a second importer call with the parameters of the call that created the
\* collection has been made
C12_Witness ==
    /\ schemaLast.tool = "importer"
    /\ ~schemaLast.raised
    /\ schemaLast.collection_name \in DOMAIN schemaLast.before
    /\ schemaLast.before[schemaLast.collection_name] =
          [vectors |-> [name |-> schemaLast.vector_name, size |-> schemaLast.vector_size,
                        distance |-> "Cosine"],
           indexes |-> KeywordIndexes]
    /\ schemaLast.calls = <<>>

----------------------------------------------------------------------------
(* Claims about point identifiers                                          *)

SameFourValues(a, b) ==
    /\ a.description = b.description
    /\ a.package_name = b.package_name
    /\ a.language = b.language
    /\ a.version = b.version

\* C13 as stated: two Snippets that agree on context, package name, language
\* and version occupy one point, whatever their code and source.
C13_IdFromFourValues ==
    (pTool = "importer" /\ SameFourValues(pPair[1], pPair[2]))
    => Cardinality(pStore) = 1

\* C13: the identifier is a function of the whole record.  Two Snippets of
\* the importer occupy one point exactly if they agree on every field (code
\* and source included); two records of encode_snippets occupy one point
\* exactly if they agree on category, sub-category, language, package name
\* and version.
C13_IdFromEveryField ==
    /\ pTool = "importer"
       => (Cardinality(pStore) = 1 <=> pPair[1] = pPair[2])
    /\ pTool = "encoder"
       => (Cardinality(pStore) = 1 <=>
              /\ pPair[1].category = pPair[2].category
              /\ pPair[1].sub_category = pPair[2].sub_category
              /\ pPair[1].language = pPair[2].language
              /\ pPair[1].package_name = pPair[2].package_name
              /\ pPair[1].version = pPair[2].version)

\* two Snippets that differ in their code only were upserted as two points
C13_Witness ==
    /\ pTool = "importer"
    /\ SameFourValues(pPair[1], pPair[2])
    /\ pPair[1].source = pPair[2].source
    /\ pPair[1].code # pPair[2].code
    /\ Cardinality(pStore) = 2

----------------------------------------------------------------------------
(* Claims about _extract_from_markdown_tree                                *)

IsCodeNode(n) == n.type \in {"fence", "code_block"}

\* positions of the code nodes among the children of the root, in order
CodePositions == SelectSeq([i \in 1..Len(tRoot) |-> i], LAMBDA i : IsCodeNode(tRoot[i]))

HasText(n) == Len(n.children) > 0 /\ Len(n.children[1].children) > 0

TextOf(n) == IF n.type = "heading" THEN n.children[1].children[1].content
             ELSE n.children[1].content

\* the last position before j that satisfies P and lies after `from`; 0 if none
LastBefore(j, from, P(_)) ==
    LET S == {i \in (from + 1)..(j - 1) : P(tRoot[i])}
    IN  IF S = {} THEN 0 ELSE CHOOSE i \in S : \A k \in S : k <= i

IsHeading(n) == n.type = "heading"

IsTextHeading(n) == n.type = "heading" /\ HasText(n)

IsParagraph(n) == n.type = "paragraph" /\ Len(n.children) > 0

\* C16: a heading starts a fresh context window.  For the code node at j and
\* the last heading h before it (with or without text), the context is the
\* text of h (empty if h has none) followed by nothing or by the text of a
\* paragraph between h and j: no text from before h, and the paragraphs
\* after h leave the heading in place.
C16_HeadingResetsContext ==
    tDone =>
    \A k \in 1..Len(CodePositions) :
        LET j == CodePositions[k]
            h == LastBefore(j, 0, IsHeading)
            heading == IF h # 0 /\ HasText(tRoot[h]) THEN TextOf(tRoot[h]) ELSE ""
            paragraphs == {TextOf(tRoot[i]) : i \in {i \in (h + 1)..(j - 1) : IsParagraph(tRoot[i])}}
        IN  /\ k <= Len(tOut)
            /\ h # 0 => tOut[k].description \in
                            {heading} \cup {heading \o p : p \in paragraphs}

----------------------------------------------------------------------------
(* Claims about the writes of import_library                               *)

\* the collection as the run numbered k found it
StoreBeforeRun(k) == IF k <= 1 THEN {} ELSE hist[k - 1].store

\* C21: import_library writes all or nothing.  While a run loads the
\* configuration, resolves versions and extracts, the collection is as the
\* run found it; a run that ended with an exception from configuration
\* loading, version resolution or extraction has upserted nothing and left
\* the collection unchanged.
C21_AllOrNothingWrite ==
    /\ pc \in {"next_source", "dispatch", "in_scope", "leave_scope", "upsert"}
       => store = StoreBeforeRun(run)
    /\ \A k \in 1..Len(hist) :
          hist[k].outcome = "raised"
          => /\ hist[k].store = StoreBeforeRun(k)
             /\ hist[k].upserted = {}

\* a second run that raised at its second source, after the first source
\* had given snippets, over a collection the first run had filled
C21_Witness ==
    /\ Len(hist) = 2
    /\ hist[1].outcome = "ok"
    /\ hist[1].store # {}
    /\ hist[2].outcome = "raised"
    /\ hist[2].failedAt = 2
    /\ acc # <<>>
    /\ store = hist[1].store

============================================================================
